---------------------------- MODULE Spec2Model ----------------------------
(***************************************************************************)
(* A model of sweis_ref_checker.py: the identifier normalizers, the        *)
(* context classifier, the reference and target extractors and the         *)
(* cross-reference matcher (find_orphans).                                 *)
(*                                                                         *)
(* Texts and identifiers are TLA+ strings, read character by character     *)
(* with SubSeq.  Offsets into a text are Python offsets (0-based), so that *)
(* text[a:b] is Slice(text, a, b).  The en dash U+2013 and the em dash     *)
(* U+2014 cannot be written in a TLA+ string; they are represented by the  *)
(* characters "~" and "^", which occur nowhere else in the model's texts.  *)
(***************************************************************************)
EXTENDS Integers, Sequences, FiniteSets, TLC

VARIABLES
    pc,          \* position of the run: which step comes next
    raw,         \* normalizer run: the raw identifier handed to a normalizer
    norm_fn,     \* normalizer run: which normalizer was applied
    norm_once,   \* normalizer run: the normalizer's result on raw
    norm_twice,  \* normalizer run: the normalizer's result on norm_once
    pages,       \* list of <<page_num, text>> pairs of the volume
    volume,      \* the volume's file name
    refs,        \* list of Reference records (all_refs)
    targets,     \* list of Target records (all_targets)
    matched,     \* find_orphans: first returned list
    orphaned     \* find_orphans: second returned list

vars == <<pc, raw, norm_fn, norm_once, norm_twice, pages, volume, refs,
          targets, matched, orphaned>>

---------------------------------------------------------------------------
(* Characters and strings                                                  *)

EN_DASH == "~"
EM_DASH == "^"

UpperAlphabet == "ABCDEFGHIJKLMNOPQRSTUVWXYZ"
LowerAlphabet == "abcdefghijklmnopqrstuvwxyz"

UpperLetters == {SubSeq(UpperAlphabet, i, i) : i \in 1..26}
LowerLetters == {SubSeq(LowerAlphabet, i, i) : i \in 1..26}
Digits == {"0", "1", "2", "3", "4", "5", "6", "7", "8", "9"}

\* str.isspace() / the regex class \s, on the characters the model writes
Whitespace == {" ", "\t", "\n", "\r", "\f"}

\* the regex class \w
WordChars == UpperLetters \cup LowerLetters \cup Digits \cup {"_"}

\* str.upper() and str.lower() on the letters
UpperOf == [c \in LowerLetters |->
              LET i == CHOOSE j \in 1..26 : SubSeq(LowerAlphabet, j, j) = c
              IN  SubSeq(UpperAlphabet, i, i)]
LowerOf == [c \in UpperLetters |->
              LET i == CHOOSE j \in 1..26 : SubSeq(UpperAlphabet, j, j) = c
              IN  SubSeq(LowerAlphabet, i, i)]

\* str.upper() and str.lower() on one character
UpperChar(c) == IF c \in LowerLetters THEN UpperOf[c] ELSE c
LowerChar(c) == IF c \in UpperLetters THEN LowerOf[c] ELSE c

\* text[i], i a Python offset
CharAt(s, i) == SubSeq(s, i + 1, i + 1)

\* text[a:b], a and b Python offsets with 0 <= a, b <= len(text)
Slice(s, a, b) == SubSeq(s, a + 1, b)

Max(a, b) == IF a > b THEN a ELSE b
Min(a, b) == IF a < b THEN a ELSE b

RECURSIVE UpperRange(_, _, _)
\* s[lo:hi].upper(), computed by halves
UpperRange(s, lo, hi) ==
    IF hi =< lo THEN ""
    ELSE IF hi = lo + 1 THEN UpperChar(CharAt(s, lo))
    ELSE LET mid == (lo + hi) \div 2
         IN  UpperRange(s, lo, mid) \o UpperRange(s, mid, hi)

\* str.upper()
Upper(s) == UpperRange(s, 0, Len(s))

\* str.lstrip(chars): s from its first character that is not in chars
LStrip(s, chars) ==
    LET n == CHOOSE q \in 0..Len(s) :
                /\ q = Len(s) \/ CharAt(s, q) \notin chars
                /\ \A i \in 0..(q - 1) : CharAt(s, i) \in chars
    IN  Slice(s, n, Len(s))

\* str.rstrip(chars): s up to its last character that is not in chars
RStrip(s, chars) ==
    LET n == CHOOSE q \in 0..Len(s) :
                /\ q = 0 \/ CharAt(s, q - 1) \notin chars
                /\ \A i \in q..(Len(s) - 1) : CharAt(s, i) \in chars
    IN  Slice(s, 0, n)

\* str.strip()
Strip(s) == RStrip(LStrip(s, Whitespace), Whitespace)

RECURSIVE ReplaceRange(_, _, _, _, _)
\* s[lo:hi].replace(from, to) for a one-character from, computed by halves
ReplaceRange(s, lo, hi, from, to) ==
    IF hi =< lo THEN ""
    ELSE IF hi = lo + 1
         THEN (IF CharAt(s, lo) = from THEN to ELSE CharAt(s, lo))
    ELSE LET mid == (lo + hi) \div 2
         IN  ReplaceRange(s, lo, mid, from, to)
             \o ReplaceRange(s, mid, hi, from, to)

\* str.replace(from, to) for a one-character from
ReplaceChar(s, from, to) == ReplaceRange(s, 0, Len(s), from, to)

RECURSIVE CollapseRange(_, _, _)
\* what re.sub(r"\s+", " ", s) leaves of s[lo:hi], computed by halves: the
\* first character of a run of whitespace becomes a space, the others go
CollapseRange(s, lo, hi) ==
    IF hi =< lo THEN ""
    ELSE IF hi = lo + 1
         THEN (IF CharAt(s, lo) \notin Whitespace THEN CharAt(s, lo)
               ELSE IF lo > 0 /\ CharAt(s, lo - 1) \in Whitespace THEN ""
               ELSE " ")
    ELSE LET mid == (lo + hi) \div 2
         IN  CollapseRange(s, lo, mid) \o CollapseRange(s, mid, hi)

\* re.sub(r"\s+", " ", s): every maximal run of whitespace becomes one space
CollapseWhitespace(s) == CollapseRange(s, 0, Len(s))

---------------------------------------------------------------------------
(* Normalization helpers                                                   *)

normalize_id(r) ==
    LET s1 == Strip(r)
        s2 == ReplaceChar(ReplaceChar(s1, EN_DASH, "-"), EM_DASH, "-")
    IN  CollapseWhitespace(s2)

normalize_section_id(r) == RStrip(normalize_id(r), {"."})

\* the appendix normalization of the compound branch of extract_references
normalize_appendix_id(r) == Upper(normalize_id(r))

---------------------------------------------------------------------------
(* Regular expressions (Python's re, as the patterns of the program use it) *)
(*                                                                         *)
(* A pattern is a tree of nodes.  Match gives the ways a node matches at a *)
(* position, as the list of resulting positions in the order in which      *)
(* Python's backtracking matcher tries them (greedy repetition: longest    *)
(* first; alternation: left to right), so the head of the list is the      *)
(* match that re returns.  A position is a record [p, g]: the offset and   *)
(* the spans <<start, end>> of capture groups 1 and 2.                     *)

Lit(s)     == [k |-> "lit", s |-> s]      \* a literal string
Set(cs)    == [k |-> "set", s |-> cs]     \* a character class
Cat(a)     == [k |-> "cat", a |-> a]      \* concatenation of the nodes of a
Alt(a)     == [k |-> "alt", a |-> a]      \* a[1] | a[2] | ...
Star(r)    == [k |-> "star", r |-> r]     \* r*  (greedy)
Opt(r)     == [k |-> "opt", r |-> r]      \* r?  (greedy)
Plus(r)    == Cat(<<r, Star(r)>>)         \* r+  (greedy)
Grp(n, r)  == [k |-> "grp", n |-> n, r |-> r]   \* capture group n
WordBound  == [k |-> "wb"]                \* \b
LineStart  == [k |-> "bol"]               \* ^ under re.MULTILINE

NoGroups == <<<<-1, -1>>, <<-1, -1>>>>

\* whether character c is in class cs; ic: re.IGNORECASE
InClass(c, cs, ic) ==
    \/ c \in cs
    \/ ic /\ (LowerChar(c) \in cs \/ UpperChar(c) \in cs)

\* whether literal s stands in t at offset p; ic: re.IGNORECASE
LitAt(s, t, p, ic) ==
    /\ p + Len(s) =< Len(t)
    /\ \A j \in 0..(Len(s) - 1) :
          LET c == CharAt(t, p + j)
              d == CharAt(s, j)
          IN  c = d \/ (ic /\ LowerChar(c) = LowerChar(d))

\* \b at offset p of t
AtWordBoundary(t, p) ==
    LET before == p > 0 /\ CharAt(t, p - 1) \in WordChars
        after  == p < Len(t) /\ CharAt(t, p) \in WordChars
    IN  before # after

RECURSIVE Match(_, _, _, _)
RECURSIVE MatchEach(_, _, _, _)
RECURSIVE MatchCat(_, _, _, _, _)
RECURSIVE MatchAlt(_, _, _, _, _)
RECURSIVE MatchStarEach(_, _, _, _)

\* the matches of node r from each position of the list sts, in order
MatchEach(r, t, ic, sts) ==
    IF sts = <<>> THEN <<>>
    ELSE Match(r, t, ic, Head(sts)) \o MatchEach(r, t, ic, Tail(sts))

\* the matches of a[j], a[j+1], ... in sequence from the positions sts
MatchCat(a, j, t, ic, sts) ==
    IF j > Len(a) \/ sts = <<>> THEN sts
    ELSE MatchCat(a, j + 1, t, ic, MatchEach(a[j], t, ic, sts))

\* the matches of a[j] | a[j+1] | ... from position st
MatchAlt(a, j, t, ic, st) ==
    IF j > Len(a) THEN <<>>
    ELSE Match(a[j], t, ic, st) \o MatchAlt(a, j + 1, t, ic, st)

\* r* continued from each of the positions sts reached by one more r
MatchStarEach(r, t, ic, sts) ==
    IF sts = <<>> THEN <<>>
    ELSE Match(Star(r), t, ic, Head(sts)) \o MatchStarEach(r, t, ic, Tail(sts))

Match(r, t, ic, st) ==
    CASE r.k = "lit" ->
           IF LitAt(r.s, t, st.p, ic)
           THEN <<[st EXCEPT !.p = st.p + Len(r.s)]>> ELSE <<>>
      [] r.k = "set" ->
           IF st.p < Len(t) /\ InClass(CharAt(t, st.p), r.s, ic)
           THEN <<[st EXCEPT !.p = st.p + 1]>> ELSE <<>>
      [] r.k = "cat" -> MatchCat(r.a, 1, t, ic, <<st>>)
      [] r.k = "alt" -> MatchAlt(r.a, 1, t, ic, st)
      [] r.k = "star" /\ r.r.k = "set" ->
           \* a greedy run of one character class: the longest run first,
           \* then each shorter one, down to the empty run
           LET end == CHOOSE q \in st.p..Len(t) :
                         /\ q = Len(t) \/ ~InClass(CharAt(t, q), r.r.s, ic)
                         /\ \A i \in st.p..(q - 1) :
                               InClass(CharAt(t, i), r.r.s, ic)
           IN  [i \in 1..(end - st.p + 1) |-> [st EXCEPT !.p = end + 1 - i]]
      [] r.k = "star" /\ r.r.k # "set" ->
           LET one  == Match(r.r, t, ic, st)
               more == SelectSeq(one, LAMBDA s : s.p > st.p)
           IN  MatchStarEach(r.r, t, ic, more) \o <<st>>
      [] r.k = "opt" -> Match(r.r, t, ic, st) \o <<st>>
      [] r.k = "grp" ->
           LET inner == Match(r.r, t, ic, st)
           IN  [i \in 1..Len(inner) |->
                  [inner[i] EXCEPT !.g[r.n] = <<st.p, inner[i].p>>]]
      [] r.k = "wb" -> IF AtWordBoundary(t, st.p) THEN <<st>> ELSE <<>>
      [] r.k = "bol" ->
           IF st.p = 0 \/ CharAt(t, st.p - 1) = "\n" THEN <<st>> ELSE <<>>

NoMatch == [s |-> -1, e |-> -1, g |-> NoGroups]

\* the match object of pattern pat starting exactly at offset p, or NoMatch
MatchAt(pat, t, p) ==
    LET ms == Match(pat.re, t, pat.ic, [p |-> p, g |-> NoGroups])
    IN  IF ms = <<>> THEN NoMatch
        ELSE [s |-> p, e |-> Head(ms).p, g |-> Head(ms).g]

\* the offsets at which pattern pat matches in t
MatchStarts(pat, t) == {p \in 0..Len(t) : MatchAt(pat, t, p) # NoMatch}

\* pattern.search(t): the leftmost match, or NoMatch
Search(pat, t) ==
    LET starts == MatchStarts(pat, t)
    IN  IF starts = {} THEN NoMatch
        ELSE MatchAt(pat, t, CHOOSE p \in starts : \A q \in starts : p =< q)

RECURSIVE FindIterFrom(_, _, _, _)
\* the matches among the offsets starts that begin at or after offset from,
\* leftmost first, none overlapping the one before it
FindIterFrom(pat, t, starts, from) ==
    LET rest == {p \in starts : p >= from}
    IN  IF rest = {} THEN <<>>
        ELSE LET p == CHOOSE q \in rest : \A q2 \in rest : q =< q2
                 m == MatchAt(pat, t, p)
             IN  <<m>> \o FindIterFrom(pat, t, starts,
                                       IF m.e = m.s THEN m.e + 1 ELSE m.e)

\* pattern.finditer(t), as a list of match objects
FindIter(pat, t) == FindIterFrom(pat, t, MatchStarts(pat, t), 0)

\* m.group(n), m.start(), m.end(), m.group(0)
Group(t, m, n) == Slice(t, m.g[n][1], m.g[n][2])
GroupAll(t, m) == Slice(t, m.s, m.e)

---------------------------------------------------------------------------
(* Reference extraction: the patterns                                      *)

DigitsDot == Digits \cup {"."}
Spaces1 == Plus(Set(Whitespace))     \* \s+
Spaces0 == Star(Set(Whitespace))     \* \s*
Digits1 == Plus(Set(Digits))         \* \d+
Digits4 == Cat(<<Set(Digits), Set(Digits), Set(Digits), Set(Digits)>>) \* \d{4}

\* S\.[\d.]+|[\d]+\.[\d.]+
SectionIdRe ==
    Alt(<<Cat(<<Lit("S."), Plus(Set(DigitsDot))>>),
          Cat(<<Digits1, Lit("."), Plus(Set(DigitsDot))>>)>>)

\* [A-Z]?\.?[\d]+[\d.]*[-<en dash>]\d+
LabelIdRe ==
    Cat(<<Opt(Set(UpperLetters)), Opt(Lit(".")), Digits1, Star(Set(DigitsDot)),
          Set({"-", EN_DASH}), Digits1>>)

\* Appendi(?:x|ces)
AppendixWordRe == Cat(<<Lit("Appendi"), Alt(<<Lit("x"), Lit("ces")>>)>>)

SECTION_REF_RE ==
    [re |-> Cat(<<Lit("Section"), Opt(Lit("s")), Spaces1, Grp(1, SectionIdRe)>>),
     ic |-> TRUE]

CHAPTER_REF_RE ==
    [re |-> Cat(<<Lit("Chapter"), Opt(Lit("s")), Spaces1, Grp(1, Digits1)>>),
     ic |-> TRUE]

TABLE_REF_RE ==
    [re |-> Cat(<<Lit("Table"), Opt(Lit("s")), Spaces1, Grp(1, LabelIdRe)>>),
     ic |-> TRUE]

FIGURE_REF_RE ==
    [re |-> Cat(<<Lit("Figure"), Opt(Lit("s")), Spaces1, Grp(1, LabelIdRe)>>),
     ic |-> TRUE]

APPENDIX_REF_RE ==
    [re |-> Cat(<<AppendixWordRe, Spaces1, Grp(1, Set(UpperLetters)), WordBound>>),
     ic |-> TRUE]

\* each entry: <<ref_type, pattern, group index of the id>>
REF_PATTERNS ==
    << <<"section",  SECTION_REF_RE,  1>>,
       <<"chapter",  CHAPTER_REF_RE,  1>>,
       <<"table",    TABLE_REF_RE,    1>>,
       <<"figure",   FIGURE_REF_RE,   1>>,
       <<"appendix", APPENDIX_REF_RE, 1>> >>

COMPOUND_TABLE_RE ==
    [re |-> Cat(<<Lit("Table"), Opt(Lit("s")), Spaces1, Grp(1, LabelIdRe),
                  Spaces1, Lit("and"), Spaces1, Grp(2, LabelIdRe)>>),
     ic |-> TRUE]

COMPOUND_FIGURE_RE ==
    [re |-> Cat(<<Lit("Figure"), Opt(Lit("s")), Spaces1, Grp(1, LabelIdRe),
                  Spaces1, Lit("and"), Spaces1, Grp(2, LabelIdRe)>>),
     ic |-> TRUE]

COMPOUND_SECTION_RE ==
    [re |-> Cat(<<Lit("Section"), Opt(Lit("s")), Spaces1, Grp(1, SectionIdRe),
                  Spaces1, Lit("and"), Spaces1, Grp(2, SectionIdRe)>>),
     ic |-> TRUE]

COMPOUND_APPENDIX_RE ==
    [re |-> Cat(<<AppendixWordRe, Spaces1, Grp(1, Set(UpperLetters)),
                  Spaces1, Lit("and"), Spaces1, Grp(2, Set(UpperLetters)),
                  WordBound>>),
     ic |-> TRUE]

EXTERNAL_CONTEXT_RE ==
    [re |-> Alt(<<
        Cat(<<Lit("2008"), Spaces1, Lit("LANL"), Spaces1, Lit("SWEIS")>>),
        Cat(<<Lit("Final"), Spaces1, Lit("Site-Wide"), Spaces1,
              Lit("Environmental"), Spaces1, Lit("Impact"), Spaces1,
              Lit("Statement"), Spaces1, Lit("for"), Spaces1, Lit("Continued")>>),
        Cat(<<Lit("CT"), Spaces1, Lit("EIS")>>),
        Cat(<<Lit("Conveyance"), Spaces1, Lit("and"), Spaces1, Lit("Transfer")>>),
        Lit("DOE/EIS-0380"),
        Lit("DOE/EIS-0293"),
        Cat(<<Lit("DOE/EA-"), Digits1>>),
        Cat(<<Lit("Chromium"), Spaces1, Alt(<<Lit("Interim"), Lit("Final")>>),
              Spaces1, Lit("Remedy"), Spaces1,
              Alt(<<Lit("EA"), Lit("Environmental")>>)>>),
        Cat(<<Lit("previous"), Spaces1, Lit("SWEIS")>>),
        Cat(<<Lit("prior"), Spaces1, Lit("SWEIS")>>) >>),
     ic |-> TRUE]

REGULATORY_RE ==
    [re |-> Alt(<<
        Cat(<<Digits1, Spaces1, Lit("CFR")>>),
        Cat(<<Digits1, Spaces1, Lit("U.S.C.")>>),
        Cat(<<Digits1, Spaces1, Lit("FR"), Spaces1, Digits1>>),
        Cat(<<Lit("Executive"), Spaces1, Lit("Order")>>),
        Cat(<<Lit("DOE"), Spaces1, Lit("Order")>>) >>),
     ic |-> TRUE]

\* of\s+the\s+(?:Final|2008|previous)
OF_THE_RE ==
    [re |-> Cat(<<Lit("of"), Spaces1, Lit("the"), Spaces1,
                  Alt(<<Lit("Final"), Lit("2008"), Lit("previous")>>)>>),
     ic |-> TRUE]

\* Source:\s*\w+\s*\(\d{4}
SOURCE_RE ==
    [re |-> Cat(<<Lit("Source:"), Spaces0, Plus(Set(WordChars)), Spaces0,
                  Lit("("), Digits4>>),
     ic |-> TRUE]

\* Source:\s*\w+\s*\(\d{4}\w?\)
SOURCE_WIDE_RE ==
    [re |-> Cat(<<Lit("Source:"), Spaces0, Plus(Set(WordChars)), Spaces0,
                  Lit("("), Digits4, Opt(Set(WordChars)), Lit(")")>>),
     ic |-> TRUE]

\* (?:Code\s+of\s+Ordinance|U\.?S\.?C\.?|United\s+States\s+Code)
LEGAL_CODE_RE ==
    [re |-> Alt(<<
        Cat(<<Lit("Code"), Spaces1, Lit("of"), Spaces1, Lit("Ordinance")>>),
        Cat(<<Lit("U"), Opt(Lit(".")), Lit("S"), Opt(Lit(".")), Lit("C"),
              Opt(Lit("."))>>),
        Cat(<<Lit("United"), Spaces1, Lit("States"), Spaces1, Lit("Code")>>) >>),
     ic |-> TRUE]

---------------------------------------------------------------------------
(* Reference extraction: the context classifier and the extractor          *)

CONTEXT_WINDOW == 150
EXTERNAL_WINDOW == 200
EXTERNAL_AFTER == 80
EXTERNAL_BEFORE == 80
EXTERNAL_BEFORE_WIDE == 150
REGULATORY_WINDOW == 100

get_context(text, match_start, match_end) ==
    LET start   == Max(0, match_start - CONTEXT_WINDOW)
        end     == Min(Len(text), match_end + CONTEXT_WINDOW)
        snippet == Strip(ReplaceChar(Slice(text, start, end), "\n", " "))
    IN  (IF start > 0 THEN "..." ELSE "") \o snippet
        \o (IF end < Len(text) THEN "..." ELSE "")

is_external_reference(text, match_start, match_end) ==
    LET start   == Max(0, match_start - EXTERNAL_WINDOW)
        end     == Min(Len(text), match_end + EXTERNAL_WINDOW)
        context == Slice(text, start, end)
        after   == Slice(text, match_end,
                         Min(Len(text), match_end + EXTERNAL_AFTER))
        before  == Slice(text, Max(0, match_start - EXTERNAL_BEFORE),
                         match_start)
        before_wide == Slice(text, Max(0, match_start - EXTERNAL_BEFORE_WIDE),
                             match_start)
    IN  \/ Search(EXTERNAL_CONTEXT_RE, context) # NoMatch
        \/ Search(OF_THE_RE, after) # NoMatch
        \/ Search(SOURCE_RE, before) # NoMatch
        \/ Search(SOURCE_WIDE_RE, before_wide) # NoMatch
        \/ Search(LEGAL_CODE_RE, before_wide) # NoMatch

is_regulatory_context(text, match_start, match_end) ==
    LET start   == Max(0, match_start - REGULATORY_WINDOW)
        end     == Min(Len(text), match_end + REGULATORY_WINDOW)
        context == Slice(text, start, end)
    IN  Search(REGULATORY_RE, context) # NoMatch

\* the record of the Reference dataclass
Reference(ref_type, ref_id, raw_text, vol, page, context) ==
    [ref_type |-> ref_type, ref_id |-> ref_id, raw_text |-> raw_text,
     volume |-> vol, page |-> page, context |-> context]

\* the normalizer the primary loop applies to a captured id
PrimaryNormalize(ref_type, ref_id_raw) ==
    IF ref_type \in {"section", "chapter"}
    THEN normalize_section_id(ref_id_raw)
    ELSE normalize_id(ref_id_raw)

\* PrimarySkipped without the regulatory check
PrimarySkipped_ExternalOnly(text, m) == is_external_reference(text, m.s, m.e)

\* whether the primary loop skips match m
PrimarySkipped(text, m) ==
    \/ is_regulatory_context(text, m.s, m.e)
    \/ is_external_reference(text, m.s, m.e)

RECURSIVE PrimaryRefsOf(_, _, _, _, _, _)
\* the body of the primary loop over the matches ms of one pattern
PrimaryRefsOf(ref_type, group_idx, ms, page_num, text, vol) ==
    IF ms = <<>> THEN <<>>
    ELSE LET m == Head(ms)
             rest == PrimaryRefsOf(ref_type, group_idx, Tail(ms), page_num,
                                   text, vol)
         IN  IF PrimarySkipped(text, m) THEN rest
             ELSE <<Reference(ref_type,
                              PrimaryNormalize(ref_type, Group(text, m, group_idx)),
                              GroupAll(text, m), vol, page_num,
                              get_context(text, m.s, m.e))>> \o rest

RECURSIVE PrimaryRefs(_, _, _, _)
\* the loop over REF_PATTERNS[i..] on one page
PrimaryRefs(i, page_num, text, vol) ==
    IF i > Len(REF_PATTERNS) THEN <<>>
    ELSE LET entry == REF_PATTERNS[i]
         IN  PrimaryRefsOf(entry[1], entry[3], FindIter(entry[2], text),
                           page_num, text, vol)
             \o PrimaryRefs(i + 1, page_num, text, vol)

\* the normalizer each compound loop applies to the second id
CompoundNormalize(ref_type, id_raw) ==
    CASE ref_type = "section"  -> normalize_section_id(id_raw)
      [] ref_type = "appendix" -> Upper(normalize_id(id_raw))
      [] OTHER                 -> normalize_id(id_raw)

\* whether a compound loop skips match m
CompoundSkipped(text, m) == is_external_reference(text, m.s, m.e)

RECURSIVE CompoundRefsOf_FirstGroup(_, _, _, _, _)
\* CompoundRefsOf reading the first identifier, m.group(1), again
CompoundRefsOf_FirstGroup(ref_type, ms, page_num, text, vol) ==
    IF ms = <<>> THEN <<>>
    ELSE LET m == Head(ms)
             rest == CompoundRefsOf_FirstGroup(ref_type, Tail(ms), page_num,
                                               text, vol)
         IN  IF is_external_reference(text, m.s, m.e) THEN rest
             ELSE <<Reference(ref_type, normalize_id(Group(text, m, 1)),
                              GroupAll(text, m), vol, page_num,
                              get_context(text, m.s, m.e))>> \o rest

RECURSIVE CompoundRefsOf(_, _, _, _, _)
\* the body of one compound loop over the matches ms of its pattern
CompoundRefsOf(ref_type, ms, page_num, text, vol) ==
    IF ms = <<>> THEN <<>>
    ELSE LET m == Head(ms)
             rest == CompoundRefsOf(ref_type, Tail(ms), page_num, text, vol)
         IN  IF CompoundSkipped(text, m) THEN rest
             ELSE <<Reference(ref_type,
                              CompoundNormalize(ref_type, Group(text, m, 2)),
                              GroupAll(text, m), vol, page_num,
                              get_context(text, m.s, m.e))>> \o rest

\* the four compound loops on one page, in the order of the source
CompoundRefs(page_num, text, vol) ==
    CompoundRefsOf("table", FindIter(COMPOUND_TABLE_RE, text), page_num, text, vol)
    \o CompoundRefsOf("figure", FindIter(COMPOUND_FIGURE_RE, text), page_num, text, vol)
    \o CompoundRefsOf("section", FindIter(COMPOUND_SECTION_RE, text), page_num, text, vol)
    \o CompoundRefsOf("appendix", FindIter(COMPOUND_APPENDIX_RE, text), page_num, text, vol)

RECURSIVE extract_references(_, _)
extract_references(pgs, vol) ==
    IF pgs = <<>> THEN <<>>
    ELSE LET page_num == Head(pgs)[1]
             text     == Head(pgs)[2]
         IN  PrimaryRefs(1, page_num, text, vol)
             \o CompoundRefs(page_num, text, vol)
             \o extract_references(Tail(pgs), vol)

---------------------------------------------------------------------------
(* Target extraction                                                       *)

LineIndent == Star(Set({" ", "\t"}))     \* [ \t]*

\* ^[ \t]*(S\.[\d.]+|[\d]+\.[\d.]+)\s+[A-Z]      (re.MULTILINE)
SECTION_HEADING_RE ==
    [re |-> Cat(<<LineStart, LineIndent, Grp(1, SectionIdRe), Spaces1,
                  Set(UpperLetters)>>),
     ic |-> FALSE]

\* ^[ \t]*(?:CHAPTER|Chapter)\s+(\d+)            (re.MULTILINE)
CHAPTER_HEADING_RE ==
    [re |-> Cat(<<LineStart, LineIndent, Alt(<<Lit("CHAPTER"), Lit("Chapter")>>),
                  Spaces1, Grp(1, Digits1)>>),
     ic |-> FALSE]

\* ^[ \t]*(\d+)\s+[A-Z][A-Z]+                    (re.MULTILINE)
CHAPTER_NUM_HEADING_RE ==
    [re |-> Cat(<<LineStart, LineIndent, Grp(1, Digits1), Spaces1,
                  Set(UpperLetters), Plus(Set(UpperLetters))>>),
     ic |-> FALSE]

\* ^[ \t]*Table\s+(<label id>)                   (re.MULTILINE | re.IGNORECASE)
TABLE_LABEL_RE ==
    [re |-> Cat(<<LineStart, LineIndent, Lit("Table"), Spaces1, Grp(1, LabelIdRe)>>),
     ic |-> TRUE]

\* ^[ \t]*Figure\s+(<label id>)                  (re.MULTILINE | re.IGNORECASE)
FIGURE_LABEL_RE ==
    [re |-> Cat(<<LineStart, LineIndent, Lit("Figure"), Spaces1, Grp(1, LabelIdRe)>>),
     ic |-> TRUE]

\* ^[ \t]*(?:APPENDIX|Appendix)\s+([A-Z])\b      (re.MULTILINE)
APPENDIX_HEADER_RE ==
    [re |-> Cat(<<LineStart, LineIndent, Alt(<<Lit("APPENDIX"), Lit("Appendix")>>),
                  Spaces1, Grp(1, Set(UpperLetters)), WordBound>>),
     ic |-> FALSE]

SECTION_RAW_TAIL == 80
CHAPTER_RAW_TAIL == 60
TABLE_RAW_TAIL == 80
FIGURE_RAW_TAIL == 80
APPENDIX_RAW_TAIL == 60

\* s.split("\n")[0]: s up to its first newline
FirstLine(s) ==
    LET n == CHOOSE q \in 0..Len(s) :
                /\ q = Len(s) \/ CharAt(s, q) = "\n"
                /\ \A i \in 0..(q - 1) : CharAt(s, i) # "\n"
    IN  Slice(s, 0, n)

\* text[m.start():min(m.end() + tail, len(text))].split("\n")[0].strip()
HeadingRawText(text, m, tail) ==
    Strip(FirstLine(Slice(text, m.s, Min(m.e + tail, Len(text)))))

\* the record of the Target dataclass
Target(target_type, target_id, raw_text, vol, page) ==
    [target_type |-> target_type, target_id |-> target_id,
     raw_text |-> raw_text, volume |-> vol, page |-> page]

\* the normalized id each loop of extract_targets gives its captured group
TargetNormalize(target_type, raw_id) ==
    CASE target_type = "section"  -> normalize_section_id(raw_id)
      [] target_type = "chapter"  -> Strip(raw_id)
      [] target_type = "appendix" -> Upper(raw_id)
      [] OTHER                    -> normalize_id(raw_id)

RECURSIVE TargetsOf(_, _, _, _, _, _)
\* the body of one loop of extract_targets over the matches ms of its pattern
TargetsOf(target_type, tail, ms, page_num, text, vol) ==
    IF ms = <<>> THEN <<>>
    ELSE LET m == Head(ms)
         IN  <<Target(target_type, TargetNormalize(target_type, Group(text, m, 1)),
                      HeadingRawText(text, m, tail), vol, page_num)>>
             \o TargetsOf(target_type, tail, Tail(ms), page_num, text, vol)

\* the five loops of extract_targets on one page, in the order of the source
PageTargets(page_num, text, vol) ==
    TargetsOf("section", SECTION_RAW_TAIL, FindIter(SECTION_HEADING_RE, text),
              page_num, text, vol)
    \o TargetsOf("chapter", CHAPTER_RAW_TAIL, FindIter(CHAPTER_HEADING_RE, text),
                 page_num, text, vol)
    \o TargetsOf("table", TABLE_RAW_TAIL, FindIter(TABLE_LABEL_RE, text),
                 page_num, text, vol)
    \o TargetsOf("figure", FIGURE_RAW_TAIL, FindIter(FIGURE_LABEL_RE, text),
                 page_num, text, vol)
    \o TargetsOf("appendix", APPENDIX_RAW_TAIL, FindIter(APPENDIX_HEADER_RE, text),
                 page_num, text, vol)

RECURSIVE extract_targets(_, _)
extract_targets(pgs, vol) ==
    IF pgs = <<>> THEN <<>>
    ELSE PageTargets(Head(pgs)[1], Head(pgs)[2], vol)
         \o extract_targets(Tail(pgs), vol)

---------------------------------------------------------------------------
(* Cross-reference matching                                                *)

RECURSIVE IndexOf(_, _, _)
\* s.find(c) from offset i on: the offset of the first c, or -1
IndexOf(s, c, i) ==
    IF i >= Len(s) THEN -1
    ELSE IF CharAt(s, i) = c THEN i ELSE IndexOf(s, c, i + 1)

RECURSIVE Split(_, _)
\* s.split(c): the list of the parts of s between the occurrences of c
Split(s, c) ==
    LET i == IndexOf(s, c, 0)
    IN  IF i = -1 THEN <<s>>
        ELSE <<Slice(s, 0, i)>> \o Split(Slice(s, i + 1, Len(s)), c)

RECURSIVE Join(_, _)
\* c.join(parts)
Join(parts, c) ==
    IF parts = <<>> THEN ""
    ELSE IF Len(parts) = 1 THEN parts[1]
    ELSE parts[1] \o c \o Join(Tail(parts), c)

\* s.startswith(prefix)
StartsWith(s, prefix) ==
    Len(prefix) =< Len(s) /\ Slice(s, 0, Len(prefix)) = prefix

\* SectionParents registering the immediate parent only
SectionParents_ImmediateOnly(target_id) ==
    LET parts == Split(target_id, ".")
    IN  IF Len(parts) > 1
        THEN {Join(SubSeq(parts, 1, Len(parts) - 1), ".")}
        ELSE {}

\* the parents ".".join(parts[:i]) for i in range(1, len(parts))
SectionParents(target_id) ==
    LET parts == Split(target_id, ".")
    IN  {Join(SubSeq(parts, 1, i), ".") : i \in 1..(Len(parts) - 1)}

\* target_sets.get(kind, set()) of a defaultdict held as a function
KnownIds(target_sets, kind) ==
    IF kind \in DOMAIN target_sets THEN target_sets[kind] ELSE {}

\* AddIds assigning the set of kind instead of adding to it
AddIds_Overwrite(target_sets, kind, ids) ==
    [k \in DOMAIN target_sets \cup {kind} |->
        IF k = kind THEN ids ELSE target_sets[k]]

\* target_sets with the ids added to the set of kind
AddIds(target_sets, kind, ids) ==
    [k \in DOMAIN target_sets \cup {kind} |->
        IF k = kind THEN KnownIds(target_sets, k) \cup ids
        ELSE target_sets[k]]

\* AddTarget registering the parents for targets of every kind
AddTarget_ParentsAnyKind(target_sets, t) ==
    LET direct == AddIds(target_sets, t.target_type, {t.target_id})
    IN  AddIds(direct, t.target_type, SectionParents(t.target_id))

\* one pass of the loop that builds target_sets
AddTarget(target_sets, t) ==
    LET direct == AddIds(target_sets, t.target_type, {t.target_id})
    IN  IF t.target_type = "section"
        THEN AddIds(direct, "section", SectionParents(t.target_id))
        ELSE direct

RECURSIVE BuildTargetSets(_, _)
\* the loop that builds target_sets from the targets tgts[i..]
BuildTargetSets(tgts, acc) ==
    IF tgts = <<>> THEN acc
    ELSE BuildTargetSets(Tail(tgts), AddTarget(acc, Head(tgts)))

\* the dictionary key of a reference
RefKey(r) == r.ref_type \o ":" \o r.ref_id

\* key.split(":", 1)
SplitKey(key) ==
    LET i == IndexOf(key, ":", 0)
    IN  IF i = -1 THEN <<key>>
        ELSE <<Slice(key, 0, i), Slice(key, i + 1, Len(key))>>

RECURSIVE GroupKeys(_, _)
\* the keys of seen_refs in insertion order
GroupKeys(rs, acc) ==
    IF rs = <<>> THEN acc
    ELSE LET key == RefKey(Head(rs))
         IN  GroupKeys(Tail(rs),
                       IF \E i \in 1..Len(acc) : acc[i] = key
                       THEN acc ELSE Append(acc, key))

\* GroupOf keeping only the first occurrence of the key
GroupOf_FirstOnly(rs, key) ==
    LET all == SelectSeq(rs, LAMBDA r : RefKey(r) = key)
    IN  IF all = <<>> THEN <<>> ELSE <<Head(all)>>

\* seen_refs[key]: the references of that key, in input order
GroupOf(rs, key) == SelectSeq(rs, LAMBDA r : RefKey(r) = key)

\* IsMatched with the prefix test written without the "."
IsMatched_NoDot(target_sets, key) ==
    LET ref_type == SplitKey(key)[1]
        ref_id   == SplitKey(key)[2]
        known    == KnownIds(target_sets, ref_type)
    IN  \/ ref_id \in known
        \/ /\ ref_type = "section"
           /\ \E tid \in known : StartsWith(tid, ref_id) \/ tid = ref_id

\* the verdict of one group
IsMatched(target_sets, key) ==
    LET ref_type == SplitKey(key)[1]
        ref_id   == SplitKey(key)[2]
        known    == KnownIds(target_sets, ref_type)
    IN  \/ ref_id \in known
        \/ /\ ref_type = "section"
           /\ \E tid \in known :
                 StartsWith(tid, ref_id \o ".") \/ tid = ref_id

RECURSIVE Partition(_, _, _, _)
\* the loop over seen_refs: <<matched, orphaned>>
Partition(rs, target_sets, keys, acc) ==
    IF keys = <<>> THEN acc
    ELSE LET ref_list == GroupOf(rs, Head(keys))
         IN  Partition(rs, target_sets, Tail(keys),
                       IF IsMatched(target_sets, Head(keys))
                       THEN <<acc[1] \o ref_list, acc[2]>>
                       ELSE <<acc[1], acc[2] \o ref_list>>)

\* find_orphans(refs, targets): <<matched, orphaned>>
find_orphans(rs, tgts) ==
    LET target_sets == BuildTargetSets(tgts, <<>>)
    IN  Partition(rs, target_sets, GroupKeys(rs, <<>>), << <<>>, <<>> >>)

---------------------------------------------------------------------------
(* Inputs                                                                  *)

MaxPad == 3          \* page texts: a cue stands 0..MaxPad filler blocks away
MaxRawLen == 3       \* normalizer run: raw identifiers of up to this length

\* 50 characters of filler prose that no pattern of the program matches
PAD_BLOCK == " xxxxxxxx  xxxxxxxx  xxxxxxxx  xxxxxxxx  xxxxxxxx "

RECURSIVE Pad(_)
Pad(k) == IF k = 0 THEN "" ELSE PAD_BLOCK \o Pad(k - 1)

LabelIds == {"A.3.5-1", "A.3.5-2", "8-14", "s.2~1"}

CompoundTablePhrases ==
    {"Tables " \o a \o " and " \o b \o " summarize..." : a, b \in LabelIds}

Phrases ==
    {"Chapter 5 describes", "Chapters 3 and 4 describe", "Section 5.2.4.",
     "Sections S.2.3 and S.2.4", "Table 8-14",
     "Tables A.3.5-1 and A.3.5-2 summarize...", "Figure 1.3~1",
     "Figures 1-1 and 1-2", "appendix a", "Appendix A", "Appendices A and b"}

BeforeCues ==
    {"requirements under 40 CFR Part 122, ", "Executive Order 12898, ",
     "Source: DOE (2008b), ", "the 2008 LANL SWEIS, ", "Title 18 U.S.C., "}

AfterCues ==
    {" (Source: DOE (2008b))", " of the Final SWEIS", " under 40 CFR Part 122",
     " (DOE/EIS-0380)"}

HeadingTexts ==
    {"see appendix a.\nAppendix A\nFacilities",
     "APPENDIX B\nsee Appendices A and B and Section 5.2\n5.2.4 Water\n",
     "Chapter 1\nIntroduction\nsee Chapter 1 and Table 1-1\nTable 1-1 Data",
     "1 INTRODUCTION\nChapter 1 begins here",
     "1 INTRODUCTION\nsee Chapter 1",
     "  S.1.2. Scope\nsee Sections S.1 and S.2\n\tFigure 2-1. Map\nFigure 2-1"}

PageTexts ==
    Phrases \cup CompoundTablePhrases \cup HeadingTexts
    \cup {c \o Pad(k) \o p : c \in BeforeCues, k \in 0..MaxPad, p \in Phrases}
    \cup {p \o Pad(k) \o c : p \in Phrases, k \in 0..MaxPad, c \in AfterCues}

\* the <<page_num, text>> pairs a volume's single page is drawn from
Pages ==
    {<<1, t>> : t \in PageTexts}
    \cup {<<2, t>> : t \in Phrases \cup CompoundTablePhrases \cup HeadingTexts}
VolumeName == "Volume1.pdf"

---------------------------------------------------------------------------
(* The run of main(): extraction of one volume, pooling, matching          *)

Init ==
    /\ pc = "extract_references"
    /\ \E page \in Pages : pages = <<page>>
    /\ volume = VolumeName
    /\ refs = <<>>
    /\ targets = <<>>
    /\ matched = <<>>
    /\ orphaned = <<>>
    /\ raw = ""
    /\ norm_fn = "none"
    /\ norm_once = ""
    /\ norm_twice = ""

\* refs = extract_references(pages, pdf_path); all_refs.extend(refs)
ExtractReferences ==
    /\ pc = "extract_references"
    /\ refs' = refs \o extract_references(pages, volume)
    /\ pc' = "extract_targets"
    /\ UNCHANGED <<raw, norm_fn, norm_once, norm_twice, pages, volume,
                   targets, matched, orphaned>>

\* targets = extract_targets(pages, pdf_path); all_targets.extend(targets)
ExtractTargets ==
    /\ pc = "extract_targets"
    /\ targets' = targets \o extract_targets(pages, volume)
    /\ pc' = "find_orphans"
    /\ UNCHANGED <<raw, norm_fn, norm_once, norm_twice, pages, volume,
                   refs, matched, orphaned>>

\* matched, orphaned = find_orphans(all_refs, all_targets)
FindOrphans ==
    /\ pc = "find_orphans"
    /\ LET result == find_orphans(refs, targets)
       IN  /\ matched' = result[1]
           /\ orphaned' = result[2]
    /\ pc' = "done"
    /\ UNCHANGED <<raw, norm_fn, norm_once, norm_twice, pages, volume,
                   refs, targets>>

Next == ExtractReferences \/ ExtractTargets \/ FindOrphans

Spec == Init /\ [][Next]_vars

---------------------------------------------------------------------------
(* The normalizers on their own: a raw identifier is normalized, and the   *)
(* result is normalized again by the same normalizer                       *)

RawChars == {" ", "\t", ".", "1", "a", EN_DASH}

RECURSIVE StringsOfLen(_)
StringsOfLen(n) ==
    IF n = 0 THEN {""}
    ELSE {c \o t : c \in RawChars, t \in StringsOfLen(n - 1)}

RawStrings == UNION {StringsOfLen(n) : n \in 0..MaxRawLen} \cup {"S.1 ."}

\* the normalizer named fn applied to r
ApplyNormalizer(fn, r) ==
    CASE fn = "normalize_id"          -> normalize_id(r)
      [] fn = "normalize_section_id"  -> normalize_section_id(r)
      [] fn = "normalize_appendix_id" -> normalize_appendix_id(r)

InitNormalize ==
    /\ pc = "normalize"
    /\ raw \in RawStrings
    /\ norm_fn = "none"
    /\ norm_once = ""
    /\ norm_twice = ""
    /\ pages = <<>>
    /\ volume = VolumeName
    /\ refs = <<>>
    /\ targets = <<>>
    /\ matched = <<>>
    /\ orphaned = <<>>

NormalizeId ==
    /\ pc = "normalize"
    /\ norm_fn' = "normalize_id"
    /\ norm_once' = normalize_id(raw)
    /\ pc' = "renormalize"
    /\ UNCHANGED <<raw, norm_twice, pages, volume, refs, targets, matched,
                   orphaned>>

NormalizeSectionId ==
    /\ pc = "normalize"
    /\ norm_fn' = "normalize_section_id"
    /\ norm_once' = normalize_section_id(raw)
    /\ pc' = "renormalize"
    /\ UNCHANGED <<raw, norm_twice, pages, volume, refs, targets, matched,
                   orphaned>>

NormalizeAppendixId ==
    /\ pc = "normalize"
    /\ norm_fn' = "normalize_appendix_id"
    /\ norm_once' = normalize_appendix_id(raw)
    /\ pc' = "renormalize"
    /\ UNCHANGED <<raw, norm_twice, pages, volume, refs, targets, matched,
                   orphaned>>

\* the same normalizer applied to its own result
Renormalize ==
    /\ pc = "renormalize"
    /\ norm_twice' = ApplyNormalizer(norm_fn, norm_once)
    /\ pc' = "normalized"
    /\ UNCHANGED <<raw, norm_fn, norm_once, pages, volume, refs, targets,
                   matched, orphaned>>

NextNormalize ==
    NormalizeId \/ NormalizeSectionId \/ NormalizeAppendixId \/ Renormalize

SpecNormalize == InitNormalize /\ [][NextNormalize]_vars

---------------------------------------------------------------------------
(* find_orphans on pools of references and targets                         *)

MaxParts == 3        \* section targets of up to this many dot-separated parts

KINDS == {"section", "chapter", "table", "figure", "appendix"}
OtherKinds == KINDS \ {"section"}

\* the parts an identifier of the deep pools is joined from
IdParts == {"5", "52", ""}

RECURSIVE PartLists(_)
PartLists(n) ==
    IF n = 1 THEN {<<x>> : x \in IdParts}
    ELSE {<<x>> \o l : x \in IdParts, l \in PartLists(n - 1)}

\* the identifiers of 1..n parts
IdsUpTo(n) == {Join(l, ".") : l \in UNION {PartLists(i) : i \in 1..n}}

\* a heading of the pool: the Target extract_targets would emit for it
PoolTarget(kind, id) == Target(kind, id, id \o " Heading", VolumeName, 1)

\* an occurrence of a reference on page n
PoolRef(kind, id, n) ==
    Reference(kind, id, kind \o " " \o id, VolumeName, n, "see " \o id)

\* deep pools: one section target, one section reference
DeepPools ==
    {[targets |-> <<PoolTarget("section", t)>>, refs |-> <<PoolRef("section", r, 1)>>] :
        t \in IdsUpTo(MaxParts) \cup {"5.2.4"},
        r \in IdsUpTo(MaxParts + 1) \cup {"5.2.4", "5.2", "5.3", "5.2.4.1"}}

\* the identifiers of the mixed pools
PoolIds == {"S.1", "S.1.2", "S.2"}

RECURSIVE SetToSeq(_)
\* the elements of a finite set as a list
SetToSeq(S) ==
    IF S = {} THEN <<>>
    ELSE LET x == CHOOSE y \in S : TRUE IN <<x>> \o SetToSeq(S \ {x})

\* mixed pools: any set of targets of kinds section and k; up to two
\* references of those kinds, the second one possibly a repetition
MixedPoolsOf(k) ==
    LET tpool == {PoolTarget(kind, id) : kind \in {"section", k}, id \in PoolIds}
        rpool(n) == {PoolRef(kind, id, n) : kind \in {"section", k}, id \in PoolIds}
        rlists == {<<>>} \cup {<<a>> : a \in rpool(1)}
                  \cup {<<a, b>> : a \in rpool(1), b \in rpool(1) \cup rpool(2)}
    IN  {[targets |-> SetToSeq(T), refs |-> rs] : T \in SUBSET tpool, rs \in rlists}

InitMatch ==
    /\ pc = "find_orphans"
    /\ \/ \E pool \in DeepPools :
             targets = pool.targets /\ refs = pool.refs
       \/ \E k \in OtherKinds : \E pool \in MixedPoolsOf(k) :
             targets = pool.targets /\ refs = pool.refs
    /\ matched = <<>>
    /\ orphaned = <<>>
    /\ pages = <<>>
    /\ volume = VolumeName
    /\ raw = ""
    /\ norm_fn = "none"
    /\ norm_once = ""
    /\ norm_twice = ""

NextMatch == FindOrphans

SpecMatch == InitMatch /\ [][NextMatch]_vars

---------------------------------------------------------------------------
(* find_orphans on a pool that grows: the pooled lists start empty, one    *)
(* more target or one more reference is pooled, and find_orphans is run    *)
(* again; matched and orphaned hold the verdicts of the run before         *)

MaxGrow == 4         \* targets and references pooled in all

GrowTargetPool ==
    {PoolTarget("section", "S.1.2"), PoolTarget("section", "S.2"),
     PoolTarget("table", "S.1"), PoolTarget("table", "S.1.2")}

GrowRefPool ==
    {PoolRef("section", "S.1", 1), PoolRef("section", "S.1.2", 1),
     PoolRef("section", "S.2", 2), PoolRef("table", "S.1", 1)}

InitGrow ==
    /\ pc = "find_orphans"
    /\ targets = <<>>
    /\ refs = <<>>
    /\ matched = <<>>
    /\ orphaned = <<>>
    /\ pages = <<>>
    /\ volume = VolumeName
    /\ raw = ""
    /\ norm_fn = "none"
    /\ norm_once = ""
    /\ norm_twice = ""

\* all_targets.extend(...): one more target is pooled
GrowTargets ==
    /\ pc = "done"
    /\ Len(targets) + Len(refs) < MaxGrow
    /\ \E t \in GrowTargetPool : targets' = Append(targets, t)
    /\ pc' = "find_orphans"
    /\ UNCHANGED <<raw, norm_fn, norm_once, norm_twice, pages, volume,
                   refs, matched, orphaned>>

\* all_refs.extend(...): one more reference is pooled
GrowRefs ==
    /\ pc = "done"
    /\ Len(targets) + Len(refs) < MaxGrow
    /\ \E r \in GrowRefPool : refs' = Append(refs, r)
    /\ pc' = "find_orphans"
    /\ UNCHANGED <<raw, norm_fn, norm_once, norm_twice, pages, volume,
                   targets, matched, orphaned>>

NextGrow == FindOrphans \/ GrowTargets \/ GrowRefs

SpecGrow == InitGrow /\ [][NextGrow]_vars

---------------------------------------------------------------------------
(* Properties: helpers                                                     *)

Range(seq) == {seq[i] : i \in 1..Len(seq)}
Count(seq, x) == Cardinality({i \in 1..Len(seq) : seq[i] = x})

\* the identifiers of the section targets of the pool
SectionTargetIds ==
    {t.target_id : t \in {u \in Range(targets) : u.target_type = "section"}}

\* t itself and its ancestor prefixes p1, p1.p2, ...: the prefixes of t that
\* end where t ends or where a "." follows
SelfAndAncestors(t) ==
    {Slice(t, 0, i) : i \in {j \in 0..Len(t) : j = Len(t) \/ CharAt(t, j) = "."}}

---------------------------------------------------------------------------
(* Properties of find_orphans (SpecMatch)                                  *)

\* C1: when the pool's only section target is one identifier t, a section
\* reference is in the matched list if its identifier is t or an ancestor
\* prefix of t, and in the orphaned list if it is neither.
C1_SectionPrefixClosure ==
    (pc = "done" /\ Cardinality(SectionTargetIds) = 1) =>
        LET t == CHOOSE x \in SectionTargetIds : TRUE
        IN  \A r \in Range(refs) :
               r.ref_type = "section" =>
                  IF r.ref_id \in SelfAndAncestors(t)
                  THEN r \in Range(matched) /\ r \notin Range(orphaned)
                  ELSE r \in Range(orphaned) /\ r \notin Range(matched)

\* C1 witness: the only section target is S.1.2; the reference to its
\* ancestor S.1 is matched and the reference to its sibling S.2 is orphaned.
C1_Witness ==
    /\ pc = "done"
    /\ SectionTargetIds = {"S.1.2"}
    /\ \E r \in Range(matched) : r.ref_type = "section" /\ r.ref_id = "S.1"
    /\ \E r \in Range(orphaned) : r.ref_type = "section" /\ r.ref_id = "S.2"

\* C2: find_orphans partitions its input: every occurrence of a reference is
\* in exactly one of the two lists, the lists hold nothing else, references
\* with equal (ref_type, ref_id) are in the same list; targets S.1 and S.1.2
\* with references S.1.2 and S.2 give matched {S.1.2} and orphaned {S.2}.
C2_Partition ==
    pc = "done" =>
        /\ Len(matched) + Len(orphaned) = Len(refs)
        /\ \A r \in Range(refs) :
              /\ Count(matched, r) + Count(orphaned, r) = Count(refs, r)
              /\ Count(matched, r) = 0 \/ Count(orphaned, r) = 0
        /\ Range(matched) \cup Range(orphaned) \subseteq Range(refs)
        /\ \A x \in Range(matched), y \in Range(orphaned) :
              ~(x.ref_type = y.ref_type /\ x.ref_id = y.ref_id)
        /\ ( /\ {<<t.target_type, t.target_id>> : t \in Range(targets)}
                  = {<<"section", "S.1">>, <<"section", "S.1.2">>}
             /\ {<<r.ref_type, r.ref_id>> : r \in Range(refs)}
                  = {<<"section", "S.1.2">>, <<"section", "S.2">>} )
           => /\ {r.ref_id : r \in Range(matched)} = {"S.1.2"}
              /\ {r.ref_id : r \in Range(orphaned)} = {"S.2"}

\* C2 witness: two occurrences of one logical reference, on different pages,
\* both returned in the matched list.
C2_Witness ==
    /\ pc = "done"
    /\ Len(refs) = 2
    /\ refs[1].ref_type = refs[2].ref_type
    /\ refs[1].ref_id = refs[2].ref_id
    /\ refs[1].page # refs[2].page
    /\ matched = refs
    /\ orphaned = <<>>

\* C3: a chapter, table, figure or appendix reference is matched if and only
\* if a target of the same kind has exactly its identifier.
C3_OtherKindsExactMatch ==
    pc = "done" =>
        \A r \in Range(refs) :
           r.ref_type \in OtherKinds =>
              LET exact == \E t \in Range(targets) :
                              /\ t.target_type = r.ref_type
                              /\ t.target_id = r.ref_id
              IN  /\ (r \in Range(matched)) <=> exact
                  /\ (r \in Range(orphaned)) <=> ~exact

\* C3 witness: a non-section reference S.1 is orphaned although a target of
\* its kind is S.1.2 and a section target is S.1.
C3_Witness ==
    /\ pc = "done"
    /\ \E r \in Range(orphaned) :
          /\ r.ref_type \in OtherKinds
          /\ r.ref_id = "S.1"
          /\ \E t \in Range(targets) :
                t.target_type = r.ref_type /\ t.target_id = "S.1.2"
          /\ \E t \in Range(targets) :
                t.target_type = "section" /\ t.target_id = "S.1"

---------------------------------------------------------------------------
(* Properties of the normalizers (SpecNormalize)                           *)

\* C4: normalization is idempotent for every kind: each of normalize_id,
\* normalize_section_id and the appendix normalization, applied to its own
\* result, returns it unchanged.
C4_NormalizationIdempotent ==
    pc = "normalized" => norm_twice = norm_once

---------------------------------------------------------------------------
(* Properties of the extractors (Spec)                                     *)

\* the text and the number of the volume's page
PageText == pages[1][2]
PageNum  == pages[1][1]

\* the primary pattern of a kind
PrimaryPattern(kind) ==
    LET i == CHOOSE j \in 1..Len(REF_PATTERNS) : REF_PATTERNS[j][1] = kind
    IN  REF_PATTERNS[i][2]

\* the compound pattern of each kind that has one
CompoundPatterns ==
    << <<"table", COMPOUND_TABLE_RE>>, <<"figure", COMPOUND_FIGURE_RE>>,
       <<"section", COMPOUND_SECTION_RE>>, <<"appendix", COMPOUND_APPENDIX_RE>> >>

\* a Reference of the kind was emitted for match m of the page text
EmittedFor(kind, m) ==
    \E r \in Range(refs) :
       /\ r.ref_type = kind
       /\ r.raw_text = GroupAll(PageText, m)
       /\ r.context = get_context(PageText, m.s, m.e)

\* a regulatory citation shape lies wholly within offsets lo..hi of the text
RegulatoryShapeWithin(text, lo, hi) ==
    LET a == Max(0, lo)
        b == Min(Len(text), hi)
    IN  \E i \in a..b :
           \E st \in Range(Match(REGULATORY_RE.re, text, TRUE,
                                 [p |-> i, g |-> NoGroups])) : st.p =< b

\* a "Source: <Author> (<Year>[letter])" citation stands shortly before or
\* shortly after match m
SourceCitationAdjacent(text, m) ==
    \/ Search(SOURCE_WIDE_RE,
              Slice(text, Max(0, m.s - EXTERNAL_BEFORE), m.s)) # NoMatch
    \/ Search(SOURCE_WIDE_RE,
              Slice(text, m.e, Min(Len(text), m.e + EXTERNAL_AFTER))) # NoMatch

\* C5: appendix letters are always upper-cased: every appendix Reference and
\* every appendix Target has an upper-case identifier, and the References of
\* "appendix a" and "Appendix A" have identifier "A" and are matched when an
\* appendix Target "A" exists.
C5_AppendixUpperCased ==
    /\ \A r \in Range(refs) :
          r.ref_type = "appendix" => r.ref_id = Upper(r.ref_id)
    /\ \A t \in Range(targets) :
          t.target_type = "appendix" => t.target_id = Upper(t.target_id)
    /\ pc = "done" =>
          \A r \in Range(refs) :
             ( /\ r.raw_text \in {"appendix a", "Appendix A"}
               /\ \E t \in Range(targets) :
                     t.target_type = "appendix" /\ t.target_id = "A" )
             => r.ref_id = "A" /\ r \in Range(matched)

\* C6: once the references of the page are extracted, no Reference stands for
\* a primary match that has a regulatory citation shape within the 100
\* characters before its start through the 100 characters after its end; the
\* text "requirements under 40 CFR Part 122, Chapter 5 describes" gives no
\* chapter Reference "5".
C6_RegulatoryExclusion ==
    pc = "extract_targets" =>
        /\ \A i \in 1..Len(REF_PATTERNS) :
              \A m \in Range(FindIter(REF_PATTERNS[i][2], PageText)) :
                 RegulatoryShapeWithin(PageText, m.s - REGULATORY_WINDOW,
                                       m.e + REGULATORY_WINDOW)
                 => ~EmittedFor(REF_PATTERNS[i][1], m)
        /\ PageText = "requirements under 40 CFR Part 122, Chapter 5 describes"
           => ~\E r \in Range(refs) : r.ref_type = "chapter" /\ r.ref_id = "5"

\* C6 witness: the page "requirements under 40 CFR Part 122, Chapter 5
\* describes" has been scanned; its match "Chapter 5" is in no external
\* context, and no Reference was emitted.
C6_Witness ==
    /\ pc = "extract_targets"
    /\ PageText = "requirements under 40 CFR Part 122, Chapter 5 describes"
    /\ \E m \in Range(FindIter(CHAPTER_REF_RE, PageText)) :
          /\ GroupAll(PageText, m) = "Chapter 5"
          /\ ~is_external_reference(PageText, m.s, m.e)
    /\ refs = <<>>

\* C7: the second Reference of a compound match is emitted only if the
\* compound span is classified internal: neither regulatory nor external.
C7_CompoundGuardedByClassifier ==
    pc = "extract_targets" =>
        \A i \in 1..Len(CompoundPatterns) :
           \A m \in Range(FindIter(CompoundPatterns[i][2], PageText)) :
              EmittedFor(CompoundPatterns[i][1], m)
              => /\ ~is_regulatory_context(PageText, m.s, m.e)
                 /\ ~is_external_reference(PageText, m.s, m.e)

\* C8: the page "Table 8-14 (Source: DOE (2008b))" gives no table Reference
\* "8-14"; a table or figure match with a Source citation shortly before or
\* shortly after it gives no Reference.
C8_SourceAttributionExcluded ==
    pc = "extract_targets" =>
        /\ PageText = "Table 8-14 (Source: DOE (2008b))"
           => ~\E r \in Range(refs) : r.ref_type = "table" /\ r.ref_id = "8-14"
        /\ \A kind \in {"table", "figure"} :
              \A m \in Range(FindIter(PrimaryPattern(kind), PageText)) :
                 SourceCitationAdjacent(PageText, m) => ~EmittedFor(kind, m)

\* C9: the page "Tables <id1> and <id2> summarize..." gives exactly two
\* References, both of kind table, with identifiers id1 and id2 in that
\* order, both with the page number and the volume of the page.
C9_CompoundTableExpansion ==
    pc = "extract_targets" =>
        \A a, b \in LabelIds :
           PageText = "Tables " \o a \o " and " \o b \o " summarize..."
           => /\ Len(refs) = 2
              /\ refs[1].ref_type = "table"
              /\ refs[2].ref_type = "table"
              /\ refs[1].ref_id = ReplaceChar(a, EN_DASH, "-")
              /\ refs[2].ref_id = ReplaceChar(b, EN_DASH, "-")
              /\ \A i \in 1..2 :
                    refs[i].page = PageNum /\ refs[i].volume = volume

\* C9 witness: page 2 reads "Tables A.3.5-1 and A.3.5-2 summarize..." and two
\* References were emitted, the second with a raw text other than the first's.
C9_Witness ==
    /\ pc = "extract_targets"
    /\ PageNum = 2
    /\ PageText = "Tables A.3.5-1 and A.3.5-2 summarize..."
    /\ Len(refs) = 2
    /\ refs[1].raw_text = "Tables A.3.5-1"
    /\ refs[2].raw_text = "Tables A.3.5-1 and A.3.5-2"

\* a compound phrase of each kind: <<kind, page text, id1, id2>>
CompoundExamples ==
    << <<"chapter", "Chapters 3 and 4 describe", "3", "4">>,
       <<"section", "Sections S.2.3 and S.2.4", "S.2.3", "S.2.4">>,
       <<"table", "Tables A.3.5-1 and A.3.5-2 summarize...", "A.3.5-1", "A.3.5-2">>,
       <<"figure", "Figures 1-1 and 1-2", "1-1", "1-2">>,
       <<"appendix", "Appendices A and b", "A", "B">> >>

\* C10: for each of the five kinds, an internal-context page "<Introducer>
\* <id1> and <id2>" gives, besides the Reference for id1, a second Reference
\* of the same kind for id2 with the page and the volume of the page.
C10_CompoundEveryKind ==
    pc = "extract_targets" =>
        \A n \in 1..Len(CompoundExamples) :
           LET ex == CompoundExamples[n]
           IN  PageText = ex[2] =>
                  \E i, j \in 1..Len(refs) :
                     /\ i # j
                     /\ refs[i].ref_type = ex[1] /\ refs[i].ref_id = ex[3]
                     /\ refs[j].ref_type = ex[1] /\ refs[j].ref_id = ex[4]
                     /\ refs[j].page = PageNum /\ refs[j].volume = volume

\* C11: once the targets are extracted, every line that starts with
\* "Chapter"/"CHAPTER" and an integer n, and every line that starts with a
\* bare integer n followed by whitespace and an all-caps word, has a chapter
\* Target n; on the page "1 INTRODUCTION / see Chapter 1", whose only chapter
\* heading has the second shape, the chapter Reference "1" is matched.
C11_ChapterHeadingShapes ==
    pc = "done" =>
        /\ \A m \in Range(FindIter(CHAPTER_HEADING_RE, PageText)) :
              \E t \in Range(targets) :
                 t.target_type = "chapter" /\ t.target_id = Group(PageText, m, 1)
        /\ \A m \in Range(FindIter(CHAPTER_NUM_HEADING_RE, PageText)) :
              \E t \in Range(targets) :
                 t.target_type = "chapter" /\ t.target_id = Group(PageText, m, 1)
        /\ PageText = "1 INTRODUCTION\nsee Chapter 1"
           => \E r \in Range(matched) :
                 r.ref_type = "chapter" /\ r.ref_id = "1"

---------------------------------------------------------------------------
(* Properties of find_orphans (SpecMatch), continued                       *)

\* the closed section set: target_sets["section"] as find_orphans builds it
ClosedSectionSet == KnownIds(BuildTargetSets(targets, <<>>), "section")

\* some identifier of ids equals r or begins with r and a "."
PrefixScan(ids, r) == \E t \in ids : t = r \/ StartsWith(t, r \o ".")

\* C12: for every section reference r of the pool, r is a member of the
\* closed section set if and only if some member of that set equals r or
\* begins with r + "."; and r is matched if and only if some concrete
\* section target equals r or begins with r + ".", orphaned otherwise.
C12_PrefixScanAgreesWithClosure ==
    pc = "done" =>
        \A r \in Range(refs) :
           r.ref_type = "section" =>
              /\ (r.ref_id \in ClosedSectionSet)
                    <=> PrefixScan(ClosedSectionSet, r.ref_id)
              /\ (r \in Range(matched))
                    <=> PrefixScan(SectionTargetIds, r.ref_id)
              /\ (r \in Range(orphaned))
                    <=> ~PrefixScan(SectionTargetIds, r.ref_id)

\* C12 witness: the section target 5.2.4 alone; the reference to its
\* grandparent 5 is matched, being in the closed set and no concrete target.
C12_Witness ==
    /\ pc = "done"
    /\ SectionTargetIds = {"5.2.4"}
    /\ "5" \in ClosedSectionSet
    /\ \E r \in Range(matched) : r.ref_type = "section" /\ r.ref_id = "5"

---------------------------------------------------------------------------
(* Properties of find_orphans on a growing pool (SpecGrow)                 *)

\* C13: when find_orphans is run again after one more target or one more
\* reference was pooled, every reference the run before returned matched is
\* returned matched again; and when it was a reference that was pooled, every
\* reference the run before returned orphaned is returned orphaned again.
C13_MonotoneAndIndependent ==
    [][ (pc = "find_orphans" /\ pc' = "done") =>
           /\ Range(matched) \subseteq Range(matched')
           /\ Range(matched) \cap Range(orphaned') = {}
           /\ Len(matched) + Len(orphaned) < Len(refs)
              => /\ Range(orphaned) \subseteq Range(orphaned')
                 /\ Range(orphaned) \cap Range(matched') = {} ]_vars

\* C13 witness: find_orphans has run on a pool grown to two targets and two
\* references; the reference matched by the target pooled first is matched,
\* and another reference is orphaned.
C13_Witness ==
    /\ pc = "done"
    /\ Len(targets) = 2
    /\ Len(refs) = 2
    /\ \E r \in Range(matched) :
          r.ref_type = targets[1].target_type /\ r.ref_id = targets[1].target_id
    /\ orphaned # <<>>

=============================================================================
